---- MODULE Spec2Model ----
(***************************************************************************)
(* Model of pgany's PostgreSQL wire-protocol engine (src/pg/proto.go) and  *)
(* of the per-connection handler (src/pg/server.go).                       *)
(*                                                                         *)
(* Spec and SpecLive run the handler of one client connection, SpecEnc    *)
(* the message writers on bounded inputs, SpecSrv the listener with the    *)
(* goroutines of several connections.  Bytes are the integers 0..255, a    *)
(* byte string is a sequence of bytes.  The inbound stream is `inbuf` (the *)
(* bytes the client has sent and the server has not read yet) and `eof`    *)
(* (the client has closed its sending side).  What the server writes is    *)
(* observed in `wire` (the first byte of every conn.Write of the session)  *)
(* and `resp` (the full byte strings written since the connection was      *)
(* accepted or since the top of the current query-loop iteration).         *)
(***************************************************************************)
EXTENDS Integers, Sequences, FiniteSets, TLC

\* ------------------------------------------------------------------ bounds

\* Number of chunks the client sends on the connection (Spec).
MaxSends == 3
\* Number of rows of a result set handed to the message writers (SpecEnc).
MaxRows == 2
\* Number of fields after the message type handed to WriteMessage (SpecEnc).
MaxParts == 3
\* Connections the listener accepts (SpecSrv).
MaxConns == 2
\* Number of chunks the clients send on all connections of the listener
\* together (SpecSrv).
MaxSrvSends == 2

\* --------------------------------------------------------- program constants

StartupMessage == 196608
SSLRequest == 80877103

\* ------------------------------------------------------------------- bytes

Byte == 0..255

\* ASCII codes of the tag bytes the code names as character literals.
TagR == 82
TagZ == 90
TagT == 84
TagD == 68
TagC == 67
TagQ == 81
TagX == 88
CharN == 78
CharI == 73

RECURSIVE Flatten(_)
Flatten(ss) == IF ss = <<>> THEN <<>> ELSE Head(ss) \o Flatten(Tail(ss))

Take(s, n) == SubSeq(s, 1, n)
Drop(s, n) == SubSeq(s, n + 1, Len(s))

\* encoding/binary big-endian encoders of the fixed-size integer types.  The
\* value is the signed Go value; \div and % are floor division and modulus,
\* which yields the two's-complement bytes.
BE16(v) == << (v \div 256) % 256, v % 256 >>
BE32(v) == << (v \div 16777216) % 256, (v \div 65536) % 256,
              (v \div 256) % 256, v % 256 >>
BE64(v) == (IF v < 0 THEN <<255, 255, 255, 255>> ELSE <<0, 0, 0, 0>>) \o BE32(v)

\* encoding/binary big-endian decoder of a 4-byte value, as a signed int32.
\* A uint32 is kept as its int32 image (values from 2^31 up appear negative):
\* the model's integers are 32 bits wide.
DecodeBE32(b) == (IF b[1] >= 128 THEN b[1] - 256 ELSE b[1]) * 16777216
                 + b[2] * 65536 + b[3] * 256 + b[4]

\* contentLength := int64(msgLength - 4): the subtraction is done in int32 and
\* wraps around for msgLength < -2^31 + 4.
ContentLengthWholeMessage(len) == len
ContentLength(len) ==
    IF len < (-2147483647 - 1) + 4
    THEN (len + 2147483647) + 2147483645
    ELSE len - 4

\* ------------------------------------------------------- values and fields

\* A Go value of dynamic type k passed as `any`: n is its numeric value, s its
\* bytes when it is a string.
Val(k, n, s) == [k |-> k, n |-> n, s |-> s]
GoByte(n) == Val("byte", n, <<>>)
GoInt16(n) == Val("int16", n, <<>>)
GoInt32(n) == Val("int32", n, <<>>)
GoInt64(n) == Val("int64", n, <<>>)
GoInt(n) == Val("int", n, <<>>)
GoString(s) == Val("string", 0, s)

\* binary.Write(buf, binary.BigEndian, v): the bytes appended to buf.  Values
\* that are not of a fixed-size type (int, string) make binary.Write return an
\* error and append nothing; every caller in proto.go drops that error.
BinaryWrite(v) ==
    CASE v.k = "byte" -> <<v.n % 256>>
      [] v.k = "int16" -> BE16(v.n)
      [] v.k = "int32" -> BE32(v.n)
      [] v.k = "int64" -> BE64(v.n)
      [] OTHER -> <<>>

BytesAsParts(bs) == [i \in 1..Len(bs) |-> GoByte(bs[i])]

\* WriteMessage(conn, parts...): the byte string handed to conn.Write.
\* parts[1] is the message type; the rest is serialized into the contents.
WriteMessageCountsParts(parts) ==
    LET contents == Flatten([i \in 1..(Len(parts) - 1) |-> BinaryWrite(parts[i + 1])])
    IN  <<parts[1].n>> \o BE32((Len(parts) - 1) + 4) \o contents
WriteMessage(parts) ==
    LET contents == Flatten([i \in 1..(Len(parts) - 1) |-> BinaryWrite(parts[i + 1])])
    IN  <<parts[1].n>> \o BE32(Len(contents) + 4) \o contents

AuthenticationOk == WriteMessage(<<GoByte(TagR), GoInt32(0)>>)

ReadyForQuery == WriteMessage(<<GoByte(TagZ), GoByte(CharI)>>)

\* A row is a Go map[string]any: a function from column names (byte strings)
\* to values.  `for k := range m` visits the keys in an order the runtime
\* picks anew for every loop: any sequence enumerating the keys once each.
RangeOrders(m) ==
    {o \in [1..Cardinality(DOMAIN m) -> DOMAIN m] :
        \A i, j \in DOMAIN o : i # j => o[i] # o[j]}

\* The parts RowDescription appends for one field.
FieldDescription(name) ==
    BytesAsParts(name) \o <<GoByte(0), GoInt32(0), GoInt16(0), GoInt32(0),
                            GoInt16(-1), GoInt32(0), GoInt16(0)>>

\* RowDescription(conn, data) when `range data[0]` visits the keys in `order`.
RowDescription(d, order) ==
    WriteMessage(<<GoByte(TagT), GoInt16(Cardinality(DOMAIN d[1]))>>
                 \o Flatten([i \in 1..Len(order) |-> FieldDescription(order[i])]))

\* The value buffer vb DataRow fills for one value.
ValueBytesNoTerminator(v) ==
    IF v.k = "string" THEN v.s ELSE BinaryWrite(v)
ValueBytes(v) ==
    IF v.k = "string" THEN v.s \o <<0>> ELSE BinaryWrite(v)

\* The parts DataRow appends for one value: its length, then its bytes.
ValueParts(v) == <<GoInt32(Len(ValueBytes(v)))>> \o BytesAsParts(ValueBytes(v))

\* DataRow(conn, row) when `range row` visits the keys in `order`.
DataRow(r, order) ==
    WriteMessage(<<GoByte(TagD), GoInt16(Cardinality(DOMAIN r))>>
                 \o Flatten([i \in 1..Len(order) |-> ValueParts(r[order[i]])]))

CommandComplete(tag) ==
    WriteMessage(<<GoByte(TagC)>> \o BytesAsParts(tag) \o <<GoByte(0)>>)

\* bytes.Buffer.ReadString(delim) on the unread bytes b: the bytes up to and
\* including the first delim, or all of b and io.EOF when there is none.
RECURSIVE IndexOf(_, _, _)
IndexOf(b, delim, i) ==
    IF i > Len(b) THEN 0
    ELSE IF b[i] = delim THEN i ELSE IndexOf(b, delim, i + 1)

ReadString(b, delim) ==
    LET i == IndexOf(b, delim, 1)
    IN  IF i = 0
        THEN [line |-> b, rest |-> <<>>, err |-> "EOF"]
        ELSE [line |-> Take(b, i), rest |-> Drop(b, i), err |-> "nil"]

\* The parameter loop of Startup: ReadString(0) until it reports io.EOF.  The
\* result is Startup's return value from that loop.
RECURSIVE StartupParamsStrict(_)
StartupParamsStrict(b) ==
    LET r == ReadString(b, 0)
    IN  IF r.err = "EOF"
        THEN IF r.line = <<>> THEN [ready |-> TRUE, err |-> "nil"]
             ELSE [ready |-> FALSE, err |-> "unexpected EOF"]
        ELSE StartupParamsStrict(r.rest)
RECURSIVE StartupParams(_)
StartupParams(b) ==
    LET r == ReadString(b, 0)
    IN  IF r.err = "EOF" THEN [ready |-> TRUE, err |-> "nil"]
        ELSE StartupParams(r.rest)

\* Startup's branch on protocolVersion v, with `rest` the unread bytes of buf:
\* the byte string it writes (none when empty), its return values, and what is
\* left unread in buf.
StartupOutcomeSSLFallsThrough(v, rest) ==
    IF v = SSLRequest
    THEN [write |-> <<CharN>>, ready |-> StartupParams(rest).ready,
          err |-> StartupParams(rest).err, rest |-> <<>>]
    ELSE IF v = StartupMessage
    THEN [write |-> <<>>, ready |-> StartupParams(rest).ready,
          err |-> StartupParams(rest).err, rest |-> <<>>]
    ELSE [write |-> <<>>, ready |-> FALSE, err |-> "Unknown protocol version",
          rest |-> rest]
StartupOutcomeAnyVersion(v, rest) ==
    IF v = SSLRequest
    THEN [write |-> <<CharN>>, ready |-> FALSE, err |-> "nil", rest |-> rest]
    ELSE [write |-> <<>>, ready |-> StartupParams(rest).ready,
          err |-> StartupParams(rest).err, rest |-> <<>>]
StartupOutcome(v, rest) ==
    IF v = SSLRequest
    THEN [write |-> <<CharN>>, ready |-> FALSE, err |-> "nil", rest |-> rest]
    ELSE IF v = StartupMessage
    THEN [write |-> <<>>, ready |-> StartupParams(rest).ready,
          err |-> StartupParams(rest).err, rest |-> <<>>]
    ELSE [write |-> <<>>, ready |-> FALSE, err |-> "Unknown protocol version",
          rest |-> rest]

\* Loop's handshake loop after a Startup call returned (ready, err): where the
\* goroutine goes next.
AfterStartupSSLEndsLoop(rdy, e) ==
    IF e # "nil" THEN "LoopReturn"
    ELSE IF rdy THEN "AuthenticationOk"
    ELSE "LoopReturn"
AfterStartupSkipsAuth(rdy, e) ==
    IF e # "nil" THEN "LoopReturn"
    ELSE IF rdy THEN "ReadyForQuery"
    ELSE "Startup"
AfterStartup(rdy, e) ==
    IF e # "nil" THEN "LoopReturn"
    ELSE IF rdy THEN "AuthenticationOk"
    ELSE "Startup"

\* ReadQuery's check of the message type it has read: the error it returns.
CheckMsgTypeAnyIsQuery(t) ==
    IF t = TagX THEN "Disconnect" ELSE "nil"
CheckMsgTypeOnlyQ(t) ==
    IF t # TagQ THEN "Expected 'Q'" ELSE "nil"
CheckMsgType(t) ==
    IF t = TagX THEN "Disconnect"
    ELSE IF t # TagQ THEN "Expected 'Q'"
    ELSE "nil"

\* Loop after ReadQuery returned err: Disconnect breaks out of the loop, any
\* other error is returned, no error goes on to the response.
AfterReadQuery(e) ==
    IF e = "Disconnect" THEN [pc |-> "LoopReturn", err |-> "nil"]
    ELSE IF e # "nil" THEN [pc |-> "LoopReturn", err |-> e]
    ELSE [pc |-> "RowDescription", err |-> e]

\* Loop after the i-th DataRow of n was written: the range loop goes on to the
\* next row, or ends and CommandComplete follows.
AfterDataRowFirstOnly(i, n) == "CommandComplete"
AfterDataRow(i, n) == IF i = n THEN "CommandComplete" ELSE "DataRow"

\* The literal result set of Loop: strings "a", "b", "c" are the bytes 97..99,
\* "B1" is 66 49, and so on; the untyped constants 1 and 2 have type int.
LoopData ==
    << (<<97>> :> GoInt(1)) @@ (<<98>> :> GoString(<<66, 49>>)) @@ (<<99>> :> GoString(<<67, 49>>)),
       (<<97>> :> GoInt(2)) @@ (<<98>> :> GoString(<<66, 50>>)) @@ (<<99>> :> GoString(<<67, 50>>)) >>

\* The result set Loop builds for the query text it has read: the literal,
\* whatever the text (the query is not run, proto.go:239).
QueryResultByText(text) == IF text = <<>> THEN <<LoopData[1]>> ELSE LoopData
QueryResult(text) == LoopData

\* The completion tag "what".
LoopTag == <<119, 104, 97, 116>>


\* ------------------------------------------------------------------- state

VARIABLES
    pc,               \* position of the connection's goroutine in handleConnection / Loop
    inbuf,            \* bytes sent by the client and not yet read by the server
    eof,              \* the client has closed its sending side
    sends,            \* number of chunks the client has sent
    nread,            \* number of bytes the server has read from the connection
    connOpen,         \* clientConn has not been closed by the server
    msgLength,        \* local msgLength of Startup / ReadQuery
    buf,              \* local buf of Startup
    protocolVersion,  \* local protocolVersion of Startup
    ready,            \* first return value of the last Startup call
    err,              \* error value returned by the last call (or by Loop)
    msgType,          \* local msgType of ReadQuery
    q,                \* query text returned by ReadQuery
    data,             \* local data of Loop
    row,              \* number of rows of data already sent by the range loop
    wire,             \* first byte of every write of the session, in order
    resp,             \* byte strings written since accept / since the loop top
    callPos,          \* nread when the current Startup / ReadQuery call began
    callWire,         \* Len(wire) when the current Startup / ReadQuery call began
    startupCalls,     \* number of Startup calls made by Loop
    errorLogged,      \* handleConnection has logged Loop's error
    qmsgs,            \* stream offsets [from, to) of the whole query messages the client sent
    accepted,         \* number of connections Listen has accepted
    cur,              \* the accepted connection whose goroutine the variables above hold (0: none)
    parked,           \* state of the goroutine of every other accepted connection
    listener          \* position of Listen ("Handler": Listen is not part of the run)

vars == << pc, inbuf, eof, sends, nread, connOpen, msgLength, buf, protocolVersion,
           ready, err, msgType, q, data, row, wire, resp, callPos, callWire,
           startupCalls, errorLogged, qmsgs, accepted, cur, parked, listener >>

\* The state of one connection and of its goroutine.
connVars == << pc, inbuf, eof, sends, nread, connOpen, msgLength, buf,
               protocolVersion, ready, err, msgType, q, data, row, wire, resp,
               callPos, callWire, startupCalls, errorLogged, qmsgs >>
\* The state of the listener and of the goroutines that are not running.
srvVars == << accepted, cur, parked, listener >>

clientVars == << inbuf, eof, sends >>
startupLocals == << msgLength, buf, protocolVersion, ready >>
queryLocals == << msgType, q, data, row >>
outVars == << wire, resp >>
callVars == << callPos, callWire, startupCalls >>

\* ------------------------------------------------------------- the client

\* A first-phase client message: 4-byte length (counting itself), payload.
ClientStartup(payload) == BE32(Len(payload) + 4) \o payload
\* A tagged client message: tag, 4-byte length (counting itself), payload.
ClientMessage(tag, payload) == <<tag>> \o BE32(Len(payload) + 4) \o payload

\* What the client may send in one piece: well-formed messages, messages with
\* a bad length or magic, and messages cut short.
Chunks ==
    { ClientStartup(BE32(SSLRequest)),
      ClientStartup(BE32(StartupMessage)),
      ClientStartup(BE32(StartupMessage) \o <<117, 0, 97, 0, 0>>),
      ClientStartup(BE32(StartupMessage) \o <<117, 0, 97>>),
      ClientStartup(BE32(StartupMessage + 1)),
      ClientStartup(<<0, 3>>),
      <<0, 0, 0, 4>>,
      <<0, 0, 0, 3>>,
      <<128, 0, 0, 2>>,
      <<0, 0, 0, 12, 0, 3, 0, 0, 117, 0>>,
      <<0, 0>>,
      ClientMessage(TagQ, <<83>>),
      ClientMessage(TagQ, <<>>),
      <<TagQ, 0, 0, 0, 3>>,
      <<TagQ, 0, 0, 0, 8, 83>>,
      ClientMessage(TagX, <<>>),
      ClientMessage(80, <<>>) }

\* A chunk that is exactly one query message: the tag 'Q', a length that
\* counts itself and the payload, and that payload.
IsQueryMessage(c) ==
    /\ Len(c) >= 5
    /\ c[1] = TagQ
    /\ DecodeBE32(SubSeq(c, 2, 5)) = Len(c) - 1

\* The chunks sent on the connections whose goroutines are not running.
RECURSIVE SendsOf(_, _)
SendsOf(f, n) ==
    IF n = 0 THEN 0
    ELSE (IF f[n] = <<>> THEN 0 ELSE f[n][4]) + SendsOf(f, n - 1)
ParkedSends == SendsOf(parked, MaxConns)

\* The chunks the clients may send in total: MaxSends on the one connection
\* of a handler taken alone, MaxSrvSends on the connections of a listener.
SendBudget == IF listener = "Handler" THEN MaxSends ELSE MaxSrvSends

\* On the connections of a listener the clients send one chunk of each kind:
\* an SSL request, a normal startup, a startup with an unknown magic number,
\* a startup cut short, a query, a termination and an unknown tag.
SrvChunks ==
    { ClientStartup(BE32(SSLRequest)),
      ClientStartup(BE32(StartupMessage)),
      ClientStartup(BE32(StartupMessage + 1)),
      <<0, 0, 0, 12, 0, 3, 0, 0, 117, 0>>,
      ClientMessage(TagQ, <<83>>),
      ClientMessage(TagX, <<>>),
      ClientMessage(80, <<>>) }
ChunksToSend == IF listener = "Handler" THEN Chunks ELSE SrvChunks

\* ------------------------------------------------------------ the transport

\* A read of n bytes can return once n bytes have arrived or the stream ended.
CanRead(n) == Len(inbuf) >= n \/ eof

\* binary.Read(conn, BigEndian, &v) for a v of n bytes (io.ReadFull): the bytes
\* taken from the stream and the error.
ReadFull(n) ==
    IF Len(inbuf) >= n
    THEN [bytes |-> Take(inbuf, n), err |-> "nil"]
    ELSE [bytes |-> inbuf, err |-> IF inbuf = <<>> THEN "EOF" ELSE "unexpected EOF"]

\* io.CopyN(buf, conn, n): the bytes copied and the error.  For n < 0 nothing
\* is read and (0, nil) is returned; a stream that ends early gives io.EOF.
CanCopyN(n) == n <= 0 \/ Len(inbuf) >= n \/ eof
CopyN(n) ==
    IF n <= 0 THEN [bytes |-> <<>>, err |-> "nil"]
    ELSE IF Len(inbuf) >= n THEN [bytes |-> Take(inbuf, n), err |-> "nil"]
    ELSE [bytes |-> inbuf, err |-> "EOF"]

\* The check of the number of bytes copied against contentLength, in Startup
\* and in ReadQuery: the error it gives.
UnderflowOnlyWhenLonger(n, contentLength) ==
    IF n > contentLength THEN "Buffer underflow" ELSE "nil"
Underflow(n, contentLength) ==
    IF n # contentLength THEN "Buffer underflow" ELSE "nil"

\* The connection's goroutine is blocked in a read.
Waiting ==
    \/ pc \in {"Startup", "ReadQueryLength"} /\ ~CanRead(4)
    \/ pc = "ReadQuery" /\ ~CanRead(1)
    \/ pc \in {"StartupCopyN", "ReadQueryCopyN"} /\ ~CanCopyN(ContentLength(msgLength))

\* The server observes the stream only at its reads, and a read blocks until it
\* is satisfied or the stream ends: what the server does depends on the bytes
\* of the stream and on where it ends, not on when the bytes arrive.  The
\* client therefore acts when the server waits for input.
ClientSend ==
    /\ Waiting
    /\ sends + ParkedSends < SendBudget
    /\ ~eof
    /\ \E c \in ChunksToSend :
        /\ inbuf' = inbuf \o c
        /\ qmsgs' = IF IsQueryMessage(c)
                    THEN qmsgs \cup { [from |-> nread + Len(inbuf),
                                       to |-> nread + Len(inbuf) + Len(c)] }
                    ELSE qmsgs
    /\ sends' = sends + 1
    /\ UNCHANGED << pc, eof, nread, connOpen, srvVars, startupLocals, err, queryLocals,
                    outVars, callVars, errorLogged >>

ClientClose ==
    /\ Waiting
    /\ ~eof
    /\ eof' = TRUE
    /\ UNCHANGED << pc, inbuf, sends, nread, connOpen, srvVars, qmsgs, startupLocals, err,
                    queryLocals, outVars, callVars, errorLogged >>

\* pg.Write(b): conn.Write either delivers b or fails with a transport error.
Written(b, ok) ==
    /\ wire' = IF ok THEN Append(wire, b[1]) ELSE wire
    /\ resp' = IF ok THEN Append(resp, b) ELSE resp

\* -------------------------------------------------------------------- Init

Init ==
    /\ pc = "Startup"
    /\ inbuf = <<>>
    /\ eof = FALSE
    /\ sends = 0
    /\ nread = 0
    /\ connOpen = TRUE
    /\ msgLength = 0
    /\ buf = <<>>
    /\ protocolVersion = 0
    /\ ready = FALSE
    /\ err = "nil"
    /\ msgType = 0
    /\ q = <<>>
    /\ data = <<>>
    /\ row = 0
    /\ wire = <<>>
    /\ resp = <<>>
    /\ callPos = 0
    /\ callWire = 0
    /\ startupCalls = 0
    /\ errorLogged = FALSE
    /\ qmsgs = {}
    /\ accepted = 1
    /\ cur = 1
    /\ parked = [i \in 1..MaxConns |-> <<>>]
    /\ listener = "Handler"

\* ----------------------------------------------------------------- Startup

\* Loop calls Startup; Startup reads msgLength with ReadInt32.
StartupReadLength ==
    /\ pc = "Startup"
    /\ CanRead(4)
    /\ LET r == ReadFull(4) IN
        /\ inbuf' = Drop(inbuf, Len(r.bytes))
        /\ nread' = nread + Len(r.bytes)
        /\ err' = r.err
        /\ msgLength' = IF r.err = "nil" THEN DecodeBE32(r.bytes) ELSE 0
        /\ pc' = IF r.err = "nil" THEN "StartupCopyN" ELSE "StartupReturn"
    /\ buf' = <<>>
    /\ protocolVersion' = 0
    /\ ready' = FALSE
    /\ callPos' = nread
    /\ callWire' = Len(wire)
    /\ startupCalls' = startupCalls + 1
    /\ UNCHANGED << eof, sends, connOpen, srvVars, qmsgs, queryLocals, outVars, errorLogged >>

\* Startup copies contentLength bytes into buf and checks the count.
StartupCopyN ==
    /\ pc = "StartupCopyN"
    /\ CanCopyN(ContentLength(msgLength))
    /\ LET r == CopyN(ContentLength(msgLength)) IN
        /\ inbuf' = Drop(inbuf, Len(r.bytes))
        /\ nread' = nread + Len(r.bytes)
        /\ buf' = r.bytes
        /\ err' = IF r.err # "nil" THEN r.err
                  ELSE Underflow(Len(r.bytes), ContentLength(msgLength))
        /\ pc' = IF err' = "nil" THEN "StartupParse" ELSE "StartupReturn"
    /\ UNCHANGED << eof, sends, connOpen, srvVars, qmsgs, msgLength, protocolVersion, ready,
                    queryLocals, outVars, callVars, errorLogged >>

\* Startup reads protocolVersion from buf and acts on it.
StartupParse ==
    /\ pc = "StartupParse"
    /\ pc' = "StartupReturn"
    /\ IF Len(buf) < 4
       THEN /\ err' = IF buf = <<>> THEN "EOF" ELSE "unexpected EOF"
            /\ UNCHANGED << buf, protocolVersion, ready, outVars >>
       ELSE LET v == DecodeBE32(Take(buf, 4))
                o == StartupOutcome(v, Drop(buf, 4))
            IN  /\ protocolVersion' = v
                /\ buf' = o.rest
                /\ ready' = o.ready
                /\ IF o.write = <<>>
                   THEN /\ err' = o.err
                        /\ UNCHANGED outVars
                   ELSE \E ok \in BOOLEAN :
                        /\ Written(o.write, ok)
                        /\ err' = IF ok THEN o.err ELSE "write error"
    /\ UNCHANGED << clientVars, nread, connOpen, srvVars, qmsgs, msgLength, queryLocals, callVars,
                    errorLogged >>

\* Loop's handshake loop: return the error, leave the loop when ready, or call
\* Startup again.
LoopAfterStartup ==
    /\ pc = "StartupReturn"
    /\ pc' = AfterStartup(ready, err)
    /\ UNCHANGED << clientVars, nread, connOpen, srvVars, qmsgs, startupLocals, err, queryLocals,
                    outVars, callVars, errorLogged >>

\* Loop writes AuthenticationOk.
LoopAuthenticationOk ==
    /\ pc = "AuthenticationOk"
    /\ \E ok \in BOOLEAN :
        /\ Written(AuthenticationOk, ok)
        /\ err' = IF ok THEN "nil" ELSE "write error"
        /\ pc' = IF ok THEN "ReadyForQuery" ELSE "LoopReturn"
    /\ UNCHANGED << clientVars, nread, connOpen, srvVars, qmsgs, startupLocals, queryLocals,
                    callVars, errorLogged >>


\* -------------------------------------------------------------- query loop

\* Top of the query loop: Loop writes ReadyForQuery.
LoopReadyForQuery ==
    /\ pc = "ReadyForQuery"
    /\ \E ok \in BOOLEAN :
        /\ wire' = IF ok THEN Append(wire, ReadyForQuery[1]) ELSE wire
        /\ resp' = IF ok THEN <<ReadyForQuery>> ELSE <<>>
        /\ err' = IF ok THEN "nil" ELSE "write error"
        /\ pc' = IF ok THEN "ReadQuery" ELSE "LoopReturn"
    /\ UNCHANGED << clientVars, nread, connOpen, srvVars, qmsgs, startupLocals, queryLocals,
                    callVars, errorLogged >>

\* Loop calls ReadQuery; ReadQuery reads the message type and checks it.
ReadQueryType ==
    /\ pc = "ReadQuery"
    /\ CanRead(1)
    /\ LET r == ReadFull(1) IN
        /\ inbuf' = Drop(inbuf, Len(r.bytes))
        /\ nread' = nread + Len(r.bytes)
        /\ msgType' = IF r.err = "nil" THEN r.bytes[1] ELSE 0
        /\ err' = IF r.err # "nil" THEN r.err ELSE CheckMsgType(r.bytes[1])
        /\ pc' = IF err' = "nil" THEN "ReadQueryLength" ELSE "ReadQueryReturn"
    /\ q' = <<>>
    /\ callPos' = nread
    /\ callWire' = Len(wire)
    /\ UNCHANGED << eof, sends, connOpen, srvVars, qmsgs, startupLocals, data, row, outVars,
                    startupCalls, errorLogged >>

\* ReadQuery reads msgLength with ReadInt32.
ReadQueryLength ==
    /\ pc = "ReadQueryLength"
    /\ CanRead(4)
    /\ LET r == ReadFull(4) IN
        /\ inbuf' = Drop(inbuf, Len(r.bytes))
        /\ nread' = nread + Len(r.bytes)
        /\ err' = r.err
        /\ msgLength' = IF r.err = "nil" THEN DecodeBE32(r.bytes) ELSE msgLength
        /\ pc' = IF r.err = "nil" THEN "ReadQueryCopyN" ELSE "ReadQueryReturn"
    /\ UNCHANGED << eof, sends, connOpen, srvVars, qmsgs, buf, protocolVersion, ready, queryLocals,
                    outVars, callVars, errorLogged >>

\* ReadQuery copies contentLength bytes and checks the count only.
ReadQueryCopyN ==
    /\ pc = "ReadQueryCopyN"
    /\ CanCopyN(ContentLength(msgLength))
    /\ LET r == CopyN(ContentLength(msgLength)) IN
        /\ inbuf' = Drop(inbuf, Len(r.bytes))
        /\ nread' = nread + Len(r.bytes)
        /\ err' = Underflow(Len(r.bytes), ContentLength(msgLength))
        /\ q' = IF err' = "nil" THEN r.bytes ELSE <<>>
    /\ pc' = "ReadQueryReturn"
    /\ UNCHANGED << eof, sends, connOpen, srvVars, qmsgs, startupLocals, msgType, data, row,
                    outVars, callVars, errorLogged >>

\* Loop after ReadQuery: Disconnect leaves the loop and Loop returns nil, any
\* other error is returned, otherwise the literal result set is built.
LoopAfterReadQuery ==
    /\ pc = "ReadQueryReturn"
    /\ pc' = AfterReadQuery(err).pc
    /\ err' = AfterReadQuery(err).err
    /\ IF err = "nil"
       THEN /\ data' = QueryResult(q)
            /\ row' = 0
       ELSE UNCHANGED << data, row >>
    /\ UNCHANGED << clientVars, nread, connOpen, srvVars, qmsgs, startupLocals, msgType, q,
                    outVars, callVars, errorLogged >>

\* Loop writes RowDescription; data[0] of an empty result set panics.
LoopRowDescription ==
    /\ pc = "RowDescription"
    /\ IF data = <<>>
       THEN /\ pc' = "panic"
            /\ UNCHANGED << err, outVars >>
       ELSE \E order \in RangeOrders(data[1]), ok \in BOOLEAN :
            /\ Written(RowDescription(data, order), ok)
            /\ err' = IF ok THEN "nil" ELSE "write error"
            /\ pc' = IF ok THEN "DataRow" ELSE "LoopReturn"
    /\ UNCHANGED << clientVars, nread, connOpen, srvVars, qmsgs, startupLocals, queryLocals,
                    callVars, errorLogged >>

\* One iteration of `for _, row := range data`: Loop writes one DataRow.
LoopDataRow ==
    /\ pc = "DataRow"
    /\ row < Len(data)
    /\ \E order \in RangeOrders(data[row + 1]), ok \in BOOLEAN :
        /\ Written(DataRow(data[row + 1], order), ok)
        /\ err' = IF ok THEN "nil" ELSE "write error"
        /\ pc' = IF ok THEN AfterDataRow(row + 1, Len(data)) ELSE "LoopReturn"
    /\ row' = row + 1
    /\ UNCHANGED << clientVars, nread, connOpen, srvVars, qmsgs, startupLocals, msgType, q, data,
                    callVars, errorLogged >>

\* Loop writes CommandComplete and goes back to the top of the query loop.
LoopCommandComplete ==
    /\ pc = "CommandComplete"
    /\ \E ok \in BOOLEAN :
        /\ Written(CommandComplete(LoopTag), ok)
        /\ err' = IF ok THEN "nil" ELSE "write error"
        /\ pc' = IF ok THEN "ReadyForQuery" ELSE "LoopReturn"
    /\ UNCHANGED << clientVars, nread, connOpen, srvVars, qmsgs, startupLocals, queryLocals,
                    callVars, errorLogged >>

\* handleConnection after Loop returned: log the error if there is one, log
\* "Client disconnected", return.  clientConn.Close() is never called.
handleConnection ==
    /\ pc = "LoopReturn"
    /\ pc' = "Done"
    /\ errorLogged' = (err # "nil")
    /\ UNCHANGED << clientVars, nread, connOpen, srvVars, qmsgs, startupLocals, err, queryLocals,
                    outVars, callVars >>

\* ----------------------------------------------------------- specifications

Next ==
    \/ ClientSend
    \/ ClientClose
    \/ StartupReadLength
    \/ StartupCopyN
    \/ StartupParse
    \/ LoopAfterStartup
    \/ LoopAuthenticationOk
    \/ LoopReadyForQuery
    \/ ReadQueryType
    \/ ReadQueryLength
    \/ ReadQueryCopyN
    \/ LoopAfterReadQuery
    \/ LoopRowDescription
    \/ LoopDataRow
    \/ LoopCommandComplete
    \/ handleConnection

Spec == Init /\ [][Next]_vars

\* The steps of the session's goroutine.  The Go runtime runs a goroutine
\* that is not blocked: a step of the session that stays possible is taken.
\* Nothing is assumed of the client.
SessionNext ==
    \/ StartupReadLength
    \/ StartupCopyN
    \/ StartupParse
    \/ LoopAfterStartup
    \/ LoopAuthenticationOk
    \/ LoopReadyForQuery
    \/ ReadQueryType
    \/ ReadQueryLength
    \/ ReadQueryCopyN
    \/ LoopAfterReadQuery
    \/ LoopRowDescription
    \/ LoopDataRow
    \/ LoopCommandComplete
    \/ handleConnection

SpecLive == Init /\ [][Next]_vars /\ WF_vars(SessionNext)


\* ---------------------------------------------------- the message writers

\* The message writers are functions of the result set alone.  SpecEnc applies
\* them, in Loop's order and by Loop's own steps, to every result set of a
\* bounded family instead of Loop's literal one, and applies WriteMessage to
\* every bounded sequence of fields.

EncColumns == { <<97>>, <<98>> }

\* Scalar values: integers of the fixed-size types and of type int, an empty
\* text and a text with a two-byte UTF-8 character.
EncValues ==
    { GoInt(1), GoInt32(1), GoInt64(-2), GoString(<<>>), GoString(<<195, 169>>) }

\* Result sets: up to MaxRows rows that share one column set.
ResultSets ==
    UNION { [1..n -> [cols -> EncValues]] : n \in 0..MaxRows, cols \in SUBSET EncColumns }

\* Field sequences: a message type, then up to MaxParts fields.
EncFields == { GoByte(0), GoInt16(-1), GoInt32(1), GoInt(1), GoString(<<66>>) }
PartSeqs ==
    UNION { { <<GoByte(t)>> \o f : t \in {TagR, TagD}, f \in [1..n -> EncFields] } :
            n \in 0..MaxParts }

EncInit ==
    /\ \/ pc = "AuthenticationOk" /\ data = <<>>
       \/ pc = "RowDescription" /\ data \in ResultSets
       \/ pc = "WriteMessage" /\ data \in PartSeqs
    /\ inbuf = <<>>
    /\ eof = FALSE
    /\ sends = 0
    /\ nread = 0
    /\ connOpen = TRUE
    /\ msgLength = 0
    /\ buf = <<>>
    /\ protocolVersion = StartupMessage
    /\ ready = TRUE
    /\ err = "nil"
    /\ msgType = 0
    /\ q = <<>>
    /\ row = 0
    /\ wire = <<>>
    /\ resp = <<>>
    /\ callPos = 0
    /\ callWire = 0
    /\ startupCalls = 1
    /\ errorLogged = FALSE
    /\ qmsgs = {}
    /\ accepted = 1
    /\ cur = 1
    /\ parked = [i \in 1..MaxConns |-> <<>>]
    /\ listener = "Handler"

\* WriteMessage applied to the field sequence held in data.
ApplyWriteMessage ==
    /\ pc = "WriteMessage"
    /\ \E ok \in BOOLEAN :
        /\ Written(WriteMessage(data), ok)
        /\ err' = IF ok THEN "nil" ELSE "write error"
    /\ pc' = "LoopReturn"
    /\ UNCHANGED << clientVars, nread, connOpen, srvVars, qmsgs, startupLocals, queryLocals,
                    callVars, errorLogged >>

EncNext ==
    \/ LoopAuthenticationOk
    \/ LoopReadyForQuery
    \/ LoopRowDescription
    \/ LoopDataRow
    \/ LoopCommandComplete
    \/ ApplyWriteMessage
    \/ handleConnection

SpecEnc == EncInit /\ [][EncNext]_vars


\* ------------------------------------------------ Listen and its goroutines

\* The state of a PGProtocol that handleConnection has just built for an
\* accepted connection, in the order of connVars.
NewConnection ==
    << "Startup", <<>>, FALSE, 0, 0, TRUE, 0, <<>>, 0, FALSE, "nil", 0, <<>>,
       <<>>, 0, <<>>, <<>>, 0, 0, 0, FALSE, {} >>

\* The state of accepted connection i and of its goroutine.
StateOf(i) == IF i = cur THEN connVars ELSE parked[i]

\* Every handler started so far has returned.
HandlersDone ==
    /\ cur # 0 => pc = "Done"
    /\ \A i \in 1..MaxConns : parked[i] # <<>> => parked[i][1] = "Done"

\* Listen starts the handler with a go statement: whether the handlers it has
\* started have returned or not, it goes on to the next Accept.
ListenerWaitsForHandler(handlersDone) == handlersDone
ListenerRuns(handlersDone) == TRUE

\* One iteration of Listen's loop: Accept returns a connection, for which a
\* goroutine running handleConnection is started, or it returns an error, and
\* Listen returns it.
ListenAccept ==
    /\ listener = "Accept"
    /\ accepted < MaxConns
    /\ ListenerRuns(HandlersDone)
    /\ \E ok \in BOOLEAN :
        IF ok
        THEN /\ accepted' = accepted + 1
             /\ parked' = [parked EXCEPT ![accepted + 1] = NewConnection]
             /\ listener' = "Accept"
        ELSE /\ listener' = "Return"
             /\ UNCHANGED << accepted, parked >>
    /\ UNCHANGED << connVars, cur >>

\* main exits the process with the error Listen returned: every goroutine
\* ends with it.
ProcessExit ==
    /\ listener = "Return"
    /\ listener' = "Exit"
    /\ cur' = 0
    /\ parked' = [i \in 1..MaxConns |-> <<>>]
    /\ pc' = "none"
    /\ UNCHANGED << inbuf, eof, sends, nread, connOpen, startupLocals, err,
                    queryLocals, outVars, callVars, errorLogged, qmsgs, accepted >>

\* The runtime switches to the goroutine of connection i.  The goroutines
\* share no variable, so the points at which they are preempted do not
\* matter: the switch is taken when the running goroutine is blocked in a
\* read or has returned.
Resume(i) ==
    /\ parked[i] # <<>>
    /\ parked[i][1] # "Done"
    /\ cur = 0 \/ Waiting \/ pc = "Done"
    /\ cur' = i
    /\ parked' = IF cur = 0 THEN [parked EXCEPT ![i] = <<>>]
                 ELSE [parked EXCEPT ![i] = <<>>, ![cur] = connVars]
    /\ pc' = parked[i][1]
    /\ inbuf' = parked[i][2]
    /\ eof' = parked[i][3]
    /\ sends' = parked[i][4]
    /\ nread' = parked[i][5]
    /\ connOpen' = parked[i][6]
    /\ msgLength' = parked[i][7]
    /\ buf' = parked[i][8]
    /\ protocolVersion' = parked[i][9]
    /\ ready' = parked[i][10]
    /\ err' = parked[i][11]
    /\ msgType' = parked[i][12]
    /\ q' = parked[i][13]
    /\ data' = parked[i][14]
    /\ row' = parked[i][15]
    /\ wire' = parked[i][16]
    /\ resp' = parked[i][17]
    /\ callPos' = parked[i][18]
    /\ callWire' = parked[i][19]
    /\ startupCalls' = parked[i][20]
    /\ errorLogged' = parked[i][21]
    /\ qmsgs' = parked[i][22]
    /\ UNCHANGED << accepted, listener >>

Schedule == \E i \in 1..MaxConns : Resume(i)

\* Listen has been called and has accepted nothing yet: no handler runs.
SrvInit ==
    /\ pc = "none"
    /\ inbuf = <<>>
    /\ eof = FALSE
    /\ sends = 0
    /\ nread = 0
    /\ connOpen = TRUE
    /\ msgLength = 0
    /\ buf = <<>>
    /\ protocolVersion = 0
    /\ ready = FALSE
    /\ err = "nil"
    /\ msgType = 0
    /\ q = <<>>
    /\ data = <<>>
    /\ row = 0
    /\ wire = <<>>
    /\ resp = <<>>
    /\ callPos = 0
    /\ callWire = 0
    /\ startupCalls = 0
    /\ errorLogged = FALSE
    /\ qmsgs = {}
    /\ accepted = 0
    /\ cur = 0
    /\ parked = [i \in 1..MaxConns |-> <<>>]
    /\ listener = "Accept"

SrvNext ==
    \/ ListenAccept
    \/ ProcessExit
    \/ Schedule
    \/ ClientSend
    \/ ClientClose
    \/ StartupReadLength
    \/ StartupCopyN
    \/ StartupParse
    \/ LoopAfterStartup
    \/ LoopAuthenticationOk
    \/ LoopReadyForQuery
    \/ ReadQueryType
    \/ ReadQueryLength
    \/ ReadQueryCopyN
    \/ LoopAfterReadQuery
    \/ LoopRowDescription
    \/ LoopDataRow
    \/ LoopCommandComplete
    \/ handleConnection

SpecSrv == SrvInit /\ [][SrvNext]_vars


\* ------------------------------------------------------------- properties

Range(s) == { s[i] : i \in DOMAIN s }
Count(s, x) == Cardinality({ i \in DOMAIN s : s[i] = x })

\* The four bytes of the two magic values as the client sends them.
StartupMagicBytes == <<0, 3, 0, 0>>
SSLMagicBytes == <<4, 210, 22, 47>>

\* Startup holds a fully delivered payload whose first four bytes are `magic`.
Delivered(magic) ==
    /\ pc = "StartupParse"
    /\ Len(buf) = msgLength - 4
    /\ Len(buf) >= 4
    /\ Take(buf, 4) = magic

\* C1: a Startup call that has been delivered a whole message with the
\* normal-startup magic returns (true, nil), has read from the connection
\* exactly msgLength bytes since it was called (the 4 length bytes and the
\* msgLength - 4 payload bytes) and has written nothing, whatever follows the
\* magic in the payload.
C1_StartupReadyAfterDeclaredLength ==
    [][ Delivered(StartupMagicBytes) =>
            /\ pc' = "StartupReturn"
            /\ ready'
            /\ err' = "nil"
            /\ nread' = callPos + msgLength
            /\ wire' = wire ]_vars

\* A Startup call has returned ready for a startup message that followed an
\* SSL request and whose last parameter string has no terminating null.
C1_Witness ==
    /\ pc = "StartupReturn"
    /\ ready
    /\ protocolVersion = StartupMessage
    /\ msgLength = 11
    /\ callPos = 8
    /\ nread = 19

\* C2: a Startup call that has been delivered a message with the SSL magic
\* never returns ready and writes nothing but the single byte 'N': when the
\* transport takes the write, exactly <<'N'>> is written and Startup returns
\* (false, nil), upon which Loop calls Startup again; when the transport
\* refuses the write, nothing is written and Startup returns the transport's
\* error.  Nothing past the handshake loop is reached unless the last Startup
\* call saw the normal-startup magic.
C2_SSLRefusedAndStartupAgain ==
    [][ /\ Delivered(SSLMagicBytes) =>
              /\ pc' = "StartupReturn"
              /\ ~ready'
              /\ nread' = nread
              /\ \/ err' = "nil" /\ wire' = Append(wire, CharN)
                                 /\ resp' = Append(resp, <<CharN>>)
                 \/ err' = "write error" /\ wire' = wire /\ resp' = resp
        /\ (pc = "StartupReturn" /\ protocolVersion = SSLRequest /\ err = "nil")
              => pc' = "Startup"
        /\ (pc' \notin {"Startup", "StartupCopyN", "StartupParse", "StartupReturn",
                        "LoopReturn", "Done"})
              => protocolVersion' = StartupMessage
        /\ (protocolVersion' = SSLRequest) => TagR \notin Range(wire') ]_vars

\* Loop is about to call Startup a second time after one SSL request was
\* refused with 'N'.
C2_Witness ==
    /\ pc = "Startup"
    /\ startupCalls = 1
    /\ protocolVersion = SSLRequest
    /\ wire = <<CharN>>
    /\ resp = << <<CharN>> >>
    /\ err = "nil"

\* C3: a Startup call that has been delivered a message whose magic is neither
\* 196608 nor 80877103 returns the unknown-protocol-version error and not
\* ready; from then on Loop holds that error, Startup is not called again,
\* nothing is read or written, and neither 'R' nor 'Z' has been written.
C3_UnknownMagicIsFatal ==
    [][ /\ (pc = "StartupParse" /\ Len(buf) >= 4
              /\ Take(buf, 4) \notin {StartupMagicBytes, SSLMagicBytes})
              => /\ err' = "Unknown protocol version"
                 /\ ~ready'
                 /\ pc' = "StartupReturn"
                 /\ wire' = wire
        /\ (err = "Unknown protocol version")
              => /\ err' = err
                 /\ ~ready'
                 /\ startupCalls' = startupCalls
                 /\ wire' = wire
                 /\ nread' = nread
                 /\ pc' \in {"LoopReturn", "Done"}
                 /\ TagR \notin Range(wire')
                 /\ TagZ \notin Range(wire') ]_vars

\* The handler has ended with the unknown-protocol-version error, logged, on
\* the second Startup call (the first one refused an SSL request).
C3_Witness ==
    /\ pc = "Done"
    /\ err = "Unknown protocol version"
    /\ errorLogged
    /\ startupCalls = 2
    /\ wire = <<CharN>>

\* The positions of Loop inside the query loop.
QueryLoopPcs ==
    { "ReadyForQuery", "ReadQuery", "ReadQueryLength", "ReadQueryCopyN",
      "ReadQueryReturn", "RowDescription", "DataRow", "CommandComplete" }

\* C4: 'R' is written at most once, only by Loop's AuthenticationOk step after
\* a Startup call returned ready, and exactly once on a session that is in the
\* query loop; every 'Z', 'T', 'D' and 'C' written comes after it; once a
\* Startup call has returned ready, Startup is never called again, whatever
\* the client sends.
C4_HandshakeOnceBeforeQueries ==
    [][ /\ Count(wire', TagR) <= 1
        /\ (TagR \in Range(wire')) => ready'
        /\ (wire' # wire /\ wire'[Len(wire')] = TagR)
              => (pc = "AuthenticationOk" /\ ready)
        /\ \A i \in DOMAIN wire' :
              wire'[i] \in {TagZ, TagT, TagD, TagC}
                 => \E j \in 1..(i - 1) : wire'[j] = TagR
        /\ (pc' \in QueryLoopPcs) => Count(wire', TagR) = 1
        /\ ready => /\ ready'
                    /\ startupCalls' = startupCalls
                    /\ pc' \notin {"Startup", "StartupCopyN", "StartupParse"} ]_vars

\* After the handshake the client has sent a second startup message: its first
\* byte was read as a message type by ReadQuery and rejected, with one 'R' and
\* one Startup call on the session.
C4_Witness ==
    /\ pc = "Done"
    /\ ready
    /\ startupCalls = 1
    /\ err = "Expected 'Q'"
    /\ msgType = 0
    /\ wire = <<TagR, TagZ>>


\* The tag sequence of a session is N* R (Z (T D^n C)?)*, n the number of rows:
\* every tag is preceded by what this grammar allows before it.
WireOrder ==
    \A i \in DOMAIN wire :
        LET t == wire[i]
            prev == IF i = 1 THEN 0 ELSE wire[i - 1]
            n == Len(data)
        IN  /\ t = CharN => prev \in {0, CharN}
            /\ t = TagR => prev \in {0, CharN}
            /\ t = TagZ => prev \in {TagR, TagC}
            /\ t = TagT => prev = TagZ
            /\ t = TagD => prev \in {TagT, TagD}
            /\ t = TagC => /\ i > n + 1
                           /\ \A k \in 1..n : wire[i - k] = TagD
                           /\ wire[i - n - 1] = TagT
            /\ t \in {CharN, TagR, TagZ, TagT, TagD, TagC}

\* The query loop is back at its top after a response: the iteration wrote
\* 'Z', 'T', one 'D' per row of data, in the order of data, and 'C'.
CompleteResponse ==
    (pc = "ReadyForQuery" /\ wire # <<>> /\ wire[Len(wire)] = TagC)
        => /\ Len(resp) = Len(data) + 3
           /\ resp[1] = ReadyForQuery
           /\ resp[2][1] = TagT
           /\ \A i \in 1..Len(data) :
                 \E o \in RangeOrders(data[i]) : resp[2 + i] = DataRow(data[i], o)
           /\ resp[Len(resp)] = CommandComplete(LoopTag)

\* A step at position p of the query loop writes exactly one message of tag t
\* and moves on, or the transport refuses the write and Loop returns.
WritesOne(p, t) ==
    (pc = p) => \/ wire' = Append(wire, t) /\ err' = "nil" /\ pc' # "LoopReturn"
                \/ wire' = wire /\ err' = "write error" /\ pc' = "LoopReturn"

\* C5: the tags written on a session follow N* R (Z (T D^n C)?)* with n the
\* number of rows of the result set; a 'Q' message that ReadQuery returns is
\* answered by 'T', one 'D' per row in result-set order and 'C', each step
\* writing its one message (or ending the session when the transport refuses
\* the write) and 'C' leading to the next 'Z'; bytes of a client message are
\* read in the query loop only while the last message written is 'Z', so not
\* before the 'C' of the previous query.
C5_QueryResponseOrder ==
    [][ /\ WireOrder'
        /\ CompleteResponse
        /\ (pc = "ReadQueryReturn" /\ err = "nil")
              => (pc' = "RowDescription" /\ msgType = TagQ /\ wire' = wire)
        /\ WritesOne("ReadyForQuery", TagZ)
        /\ WritesOne("RowDescription", TagT)
        /\ WritesOne("DataRow", TagD)
        /\ WritesOne("CommandComplete", TagC)
        /\ (pc = "RowDescription" /\ err' = "nil") => pc' = "DataRow"
        /\ (pc = "CommandComplete" /\ err' = "nil") => pc' = "ReadyForQuery"
        /\ (pc = "ReadyForQuery" /\ err' = "nil") => pc' = "ReadQuery"
        /\ (pc \in QueryLoopPcs /\ nread' # nread)
              => (wire # <<>> /\ wire[Len(wire)] = TagZ /\ wire' = wire) ]_vars

\* Two queries have been answered in full on one session.
C5_Witness ==
    /\ pc = "ReadyForQuery"
    /\ wire = <<TagR, TagZ, TagT, TagD, TagD, TagC, TagZ, TagT, TagD, TagD, TagC>>
    /\ Len(resp) = 5

\* C6: when the byte ReadQuery reads as message type is 'X', ReadQuery reads
\* that one byte and returns Disconnect; Loop then leaves the query loop and
\* returns nil, handleConnection logs no error, and from the read of 'X' on
\* nothing is written or read: the last message on the wire stays the 'Z'
\* written before the read.
C6_TerminateEndsCleanly ==
    [][ /\ (pc = "ReadQuery" /\ inbuf # <<>> /\ inbuf[1] = TagX)
              => /\ pc' = "ReadQueryReturn"
                 /\ err' = "Disconnect"
                 /\ nread' = nread + 1
                 /\ wire' = wire
        /\ (err = "Disconnect") => (pc' = "LoopReturn" /\ err' = "nil")
        /\ (pc \in {"ReadQueryReturn", "LoopReturn", "Done"} /\ msgType = TagX)
              => /\ pc' \in {"LoopReturn", "Done"}
                 /\ err' = "nil"
                 /\ ~errorLogged'
                 /\ wire' = wire
                 /\ nread' = nread
                 /\ wire'[Len(wire')] = TagZ ]_vars

\* The handler has ended after the client terminated a session on which one
\* query had been answered.
C6_Witness ==
    /\ pc = "Done"
    /\ msgType = TagX
    /\ err = "nil"
    /\ ~errorLogged
    /\ wire = <<TagR, TagZ, TagT, TagD, TagD, TagC, TagZ>>

\* C7: when handleConnection has ended, the client connection is closed.
C7_ConnectionClosedAtEnd == (pc = "Done") => ~connOpen


\* ----------------------------------------------- a conformant client parser

\* The client's reading of the server's messages, from the wire format: a
\* row description is a 2-byte field count, then per field a null-terminated
\* name and 18 bytes of metadata; a data row is a 2-byte field count, then per
\* field a 4-byte length and that many bytes.
DecodeBE16(b) == b[1] * 256 + b[2]

RECURSIVE ParseFieldNames(_, _)
ParseFieldNames(b, n) ==
    IF n = 0 THEN <<>>
    ELSE LET z == IndexOf(b, 0, 1)
         IN  <<Take(b, z - 1)>> \o ParseFieldNames(Drop(b, z + 18), n - 1)

ParseRowDescription(m) == ParseFieldNames(Drop(m, 7), DecodeBE16(SubSeq(m, 6, 7)))

RECURSIVE ParseValues(_, _)
ParseValues(b, n) ==
    IF n = 0 THEN <<>>
    ELSE LET l == DecodeBE32(Take(b, 4))
         IN  << [len |-> l, bytes |-> SubSeq(b, 5, 4 + l)] >>
             \o ParseValues(Drop(b, 4 + l), n - 1)

ParseDataRow(m) == ParseValues(Drop(m, 7), DecodeBE16(SubSeq(m, 6, 7)))

\* The wire representations of a scalar value: a text is its bytes and a null
\* byte, an integer is its big-endian bytes in its width (4 or 8 bytes for an
\* int).
WireValues(v) ==
    CASE v.k = "string" -> { v.s \o <<0>> }
      [] v.k = "int32" -> { BE32(v.n) }
      [] v.k = "int64" -> { BE64(v.n) }
      [] OTHER -> { BE32(v.n), BE64(v.n) }

\* C8: once a result set has been sent in full, the client's parse of the 'T'
\* message gives the column names of the result set, there is one 'D' message
\* per row, and the i-th value of every 'D' message is the value the row has in
\* the column the 'T' message names i-th.
C8_ResultSetRoundTrip ==
    (pc = "ReadyForQuery" /\ wire # <<>> /\ wire[Len(wire)] = TagC)
        => LET names == ParseRowDescription(resp[2])
           IN  /\ Range(names) = DOMAIN data[1]
               /\ Len(names) = Cardinality(DOMAIN data[1])
               /\ Len(resp) = Len(data) + 3
               /\ \A i \in 1..Len(data) :
                     LET vals == ParseDataRow(resp[2 + i])
                     IN  /\ Len(vals) = Len(names)
                         /\ \A j \in 1..Len(names) :
                               vals[j].bytes \in WireValues(data[i][names[j]])

\* C9: every message WriteMessage hands to the connection is a tag byte, a
\* 4-byte big-endian length and a payload, and the length is 4 plus the number
\* of payload bytes, whatever fields it was given.
C9_DeclaredLengthIsPayloadPlus4 ==
    \A i \in DOMAIN resp :
        /\ Len(resp[i]) >= 5
        /\ DecodeBE32(SubSeq(resp[i], 2, 5)) = 4 + (Len(resp[i]) - 5)

\* WriteMessage has been applied to a field sequence with a field that cannot
\* be encoded (an int) before an encodable one.
C9_Witness ==
    /\ pc = "LoopReturn"
    /\ data = <<GoByte(TagD), GoInt(1), GoInt16(-1)>>
    /\ resp = << <<TagD, 0, 0, 0, 6, 255, 255>> >>

\* C10: in every 'D' message written for a row, each text value of the row
\* appears as a 4-byte length equal to its byte count plus one, followed by
\* its bytes unchanged and one null byte (the values in the order the row was
\* traversed).
C10_TextValueLengthAndBytes ==
    (resp # <<>> /\ resp[1][1] = TagT)
        => \A i \in 1..Len(data) :
              (Len(resp) >= 1 + i)
                 => LET vals == ParseDataRow(resp[1 + i])
                    IN  /\ resp[1 + i][1] = TagD
                        /\ \E o \in RangeOrders(data[i]) :
                              /\ Len(vals) = Len(o)
                              /\ \A j \in 1..Len(o) :
                                    data[i][o[j]].k = "string"
                                       => /\ vals[j].len = Len(data[i][o[j]].s) + 1
                                          /\ vals[j].bytes = data[i][o[j]].s \o <<0>>

\* A row with a two-byte UTF-8 text and an empty text has been written as a
\* 'D' message: lengths 3 and 1.
C10_Witness ==
    /\ pc = "CommandComplete"
    /\ Len(data) = 1
    /\ DOMAIN data[1] = EncColumns
    /\ data[1][<<97>>] = GoString(<<195, 169>>)
    /\ data[1][<<98>>] = GoString(<<>>)
    /\ resp[2] = <<TagD, 0, 0, 0, 18, 0, 2, 0, 0, 0, 3, 195, 169, 0, 0, 0, 0, 1, 0>>

\* The fixed width in bytes that an integer value is declared with on the
\* wire: 4 for a 32-bit integer and for the integers of Loop's rows, 8 for a
\* 64-bit integer.
IntWidth(v) == IF v.k = "int64" THEN 8 ELSE 4

\* The big-endian bytes of an integer value in its fixed width.
IntBytes(v) == IF v.k = "int64" THEN BE64(v.n) ELSE BE32(v.n)

\* C11: in every 'D' message written for a row, each integer value of the row
\* appears as a 4-byte length equal to the value's fixed width, followed by
\* that many bytes holding the value in big-endian order (the values in the
\* order the row was traversed); the integer 1 of Loop's first row appears as
\* length 4 and the bytes 00 00 00 01.
C11_IntegerValueLengthAndBytes ==
    (resp # <<>> /\ Len(resp) >= 2 /\ resp[2][1] = TagT)
        => \A i \in 1..Len(data) :
              (Len(resp) >= 2 + i)
                 => LET vals == ParseDataRow(resp[2 + i])
                    IN  \E o \in RangeOrders(data[i]) :
                           /\ Len(vals) = Len(o)
                           /\ \A j \in 1..Len(o) :
                                 data[i][o[j]].k # "string"
                                    => /\ vals[j].len = IntWidth(data[i][o[j]])
                                       /\ vals[j].bytes = IntBytes(data[i][o[j]])

\* C12: when the tag byte ReadQuery reads is neither 'Q' nor 'X', ReadQuery
\* returns the error "Expected 'Q'" having read that one byte only, the length
\* and payload of the message stay unread, Loop returns that error to
\* handleConnection, and from then on the session neither reads from nor
\* writes to the connection.
C12_UnknownTagIsFatal ==
    [][ /\ (pc = "ReadQuery" /\ inbuf # <<>> /\ inbuf[1] \notin {TagQ, TagX})
            => /\ pc' = "ReadQueryReturn"
               /\ err' = "Expected 'Q'"
               /\ nread' = nread + 1
               /\ inbuf' = Drop(inbuf, 1)
               /\ wire' = wire
        /\ (err = "Expected 'Q'")
            => /\ err' = err
               /\ pc = "ReadQueryReturn" => pc' = "LoopReturn"
               /\ pc = "LoopReturn" => pc' = "Done" /\ errorLogged'
               /\ pc \in {"ReadQueryReturn", "LoopReturn"}
               /\ nread' = nread
               /\ inbuf' = inbuf
               /\ outVars' = outVars
      ]_vars

\* After the handshake the client sent a message with the tag 'P' and length
\* 4: the session ended with the error, one byte past the handshake, the four
\* length bytes unread, and nothing written after 'R' and 'Z'.
C12_Witness ==
    /\ pc = "Done"
    /\ err = "Expected 'Q'"
    /\ errorLogged
    /\ msgType = 80
    /\ nread = callPos + 1
    /\ inbuf = <<0, 0, 0, 4>>
    /\ wire = <<TagR, TagZ>>

\* The stream has ended and holds fewer bytes than the content length that
\* the message being read declares.
ShortPayload == eof /\ ContentLength(msgLength) > Len(inbuf)

\* C13: when the stream ends before the declared payload of a startup message
\* or of a query message has arrived, the read ends with an error, Loop
\* returns it and the session ends without another read or write; for a
\* startup message Startup does not report ready and nothing ('N', 'R' or
\* 'Z') is written on account of it.
C13_ShortPayloadIsFatal ==
    [][ /\ (pc = "StartupCopyN" /\ ShortPayload)
            => /\ pc' = "StartupReturn"
               /\ err' = "EOF"
               /\ ~ready'
               /\ outVars' = outVars
        /\ (pc = "ReadQueryCopyN" /\ ShortPayload)
            => /\ pc' = "ReadQueryReturn"
               /\ err' = "Buffer underflow"
               /\ outVars' = outVars
        /\ (err \in {"EOF", "Buffer underflow"})
            => /\ err' = err
               /\ pc \in {"StartupReturn", "ReadQueryReturn", "LoopReturn"}
               /\ pc \in {"StartupReturn", "ReadQueryReturn"} => pc' = "LoopReturn"
               /\ pc = "LoopReturn" => pc' = "Done" /\ errorLogged'
               /\ ready' = ready
               /\ nread' = nread
               /\ outVars' = outVars
      ]_vars

\* The client sent a startup message that declares 12 bytes, only 6 of the 8
\* payload bytes, and closed: the session ended with the read error and
\* wrote nothing.
C13_Witness ==
    /\ pc = "Done"
    /\ err = "EOF"
    /\ errorLogged
    /\ eof
    /\ msgLength = 12
    /\ nread = 10
    /\ buf = <<0, 3, 0, 0, 117, 0>>
    /\ wire = <<>>

\* C14: when a ReadQuery call begins at the first byte of a whole query
\* message of the client, it returns without error having consumed the tag
\* byte and the declared length and nothing more, its result is the payload
\* of that message, and the read position stays at the end of the message
\* while the response is written, until the tag byte of the next call is
\* read: that byte is the first byte of what the client sent next.
C14_ReadPositionOnMessageBoundary ==
    \A m \in qmsgs :
        (/\ callPos = m.from
         /\ pc \in {"ReadQueryReturn", "RowDescription", "DataRow",
                    "CommandComplete", "ReadyForQuery", "ReadQuery"})
            => /\ err = "nil"
               /\ msgType = TagQ
               /\ nread = callPos + 1 + msgLength
               /\ nread = m.to
               /\ Len(q) = m.to - m.from - 5
               /\ \A n \in qmsgs : n.from = m.to => inbuf # <<>> /\ inbuf[1] = TagQ

\* Two query messages of different lengths (6 and 5 bytes) have been consumed
\* after the 8-byte startup message; the second ReadQuery call began at offset
\* 14 and ended at offset 19.
C14_Witness ==
    /\ pc = "ReadQueryReturn"
    /\ err = "nil"
    /\ qmsgs = { [from |-> 8, to |-> 14], [from |-> 14, to |-> 19] }
    /\ callPos = 14
    /\ nread = 19
    /\ q = <<>>

\* --------------------------------------------- the execution capability

\* Loop hands the query text to no one (proto.go:239) and builds the literal
\* result set.  The capability it stands in for maps a query text to a result
\* set or to a failure; here it fails for the text "S", which is not a query
\* of any language, and the tag of the error response is 'E'.
TagE == 69
ExecuteFails(text) == text = <<83>>

\* C15: when the execution of the query that was read fails, the iteration
\* of the query loop that read it writes an error response ('E') and writes
\* no row description, data row or command completion for it; the session
\* does not panic.
C15_ExecutionFailureReported ==
    /\ pc # "panic"
    /\ (ExecuteFails(q) /\ pc = "ReadyForQuery")
        => /\ \E i \in DOMAIN resp : resp[i][1] = TagE
           /\ \A i \in DOMAIN resp : resp[i][1] \notin {TagT, TagD, TagC}

\* C16: Listen starts one handler per accepted connection and accepts again
\* whether the handlers have returned or not (while it is accepting and
\* connections are left, the next Accept can be taken); no step changes the
\* state or the output of a session other than the one that takes it, and a
\* step of a session or of its client changes nothing of the listener; when
\* the running session is blocked in a read or has ended, with or without an
\* error, every other session that has not ended can go on.
C16_ConnectionsIsolated ==
    [][ /\ (listener = "Accept" /\ accepted < MaxConns) => ENABLED ListenAccept
        /\ listener' # "Exit"
            => \A i \in 1..accepted :
                  (i # cur \/ cur' # cur) => StateOf(i)' = StateOf(i)
        /\ (cur # 0 /\ cur' = cur /\ connVars' # connVars)
            => /\ accepted' = accepted
               /\ listener' = listener
               /\ parked' = parked
        /\ (cur # 0 /\ (Waiting \/ pc = "Done"))
            => \A i \in 1..accepted :
                  (i # cur /\ parked[i][1] # "Done") => ENABLED Resume(i)
      ]_vars

\* Two sessions: the first ended with a fatal error (its startup message had
\* an unknown magic number), the second has since completed its handshake
\* and is blocked waiting for a query, and Listen is still accepting.
C16_Witness ==
    /\ accepted = 2
    /\ listener = "Accept"
    /\ cur = 2
    /\ parked[1] # <<>>
    /\ parked[1][1] = "Done"
    /\ parked[1][11] = "Unknown protocol version"
    /\ parked[1][16] = <<>>
    /\ pc = "ReadQuery"
    /\ wire = <<TagR, TagZ>>
    /\ Waiting

C18_TooSmallLengthIsFatal ==
    /\ (pc \in {"StartupCopyN", "ReadQueryCopyN"} /\ msgLength < 4)
        => ContentLength(msgLength) < 0
    /\ (pc = "StartupReturn" /\ nread >= callPos + 4 /\ msgLength < 8)
        => err # "nil" /\ ~ready
    /\ (pc = "ReadQueryReturn" /\ msgType = TagQ /\ nread >= callPos + 5
            /\ msgLength < 4)
        => err \notin {"nil", "Disconnect"}
    /\ (pc = "ReadQueryReturn" /\ msgType = TagQ /\ nread >= callPos + 5
            /\ msgLength = 4)
        => err = "nil" /\ q = <<>>

\* The session's writes so far are one 'N' per Startup call but the last,
\* then 'R', then 'Z'.
HandshakeWritten ==
    /\ Len(wire) = startupCalls + 1
    /\ \A i \in 1..(startupCalls - 1) : wire[i] = CharN
    /\ wire[startupCalls] = TagR
    /\ wire[startupCalls + 1] = TagZ

\* C19: while the handshake lasts, every Startup call but the current one was
\* an SSL request answered by exactly one 'N', however many there were; after
\* an SSL request that was answered the loop calls Startup again; the loop is
\* left only for the authentication of a normal startup or with an error (an
\* invalid message, the end of the stream, a failed write).  Once a whole
\* normal startup message has arrived, the session comes to have written 'R'
\* and then 'Z' after the 'N's, unless a write fails.
C19_HandshakeLoopUnboundedAndCompletes ==
    /\ [][ /\ (pc \in {"Startup", "StartupCopyN", "StartupParse"})
               => /\ wire = [i \in 1..Len(wire) |-> CharN]
                  /\ Len(wire) = IF pc = "Startup" THEN startupCalls
                                 ELSE startupCalls - 1
           /\ (pc = "StartupReturn" /\ protocolVersion = SSLRequest /\ err = "nil")
               => /\ pc' = "Startup"
                  /\ wire = [i \in 1..startupCalls |-> CharN]
           /\ (pc = "StartupReturn" /\ pc' = "AuthenticationOk")
               => protocolVersion = StartupMessage /\ ready /\ err = "nil"
           /\ (pc = "StartupReturn" /\ pc' = "LoopReturn")
               => err # "nil" /\ ~ready
         ]_vars
    /\ Delivered(StartupMagicBytes) ~> (HandshakeWritten \/ err = "write error")

\* The client sent SSL requests with all its chunks but the last and a normal
\* startup message with the last: each request was answered with 'N', and the
\* session then wrote 'R' and 'Z' and waits for a query.
C19_Witness ==
    /\ pc = "ReadQuery"
    /\ sends = MaxSends
    /\ startupCalls = MaxSends
    /\ HandshakeWritten
    /\ Count(wire, CharN) = MaxSends - 1
    /\ nread = 8 * MaxSends
    /\ err = "nil"

\* What a client sees of a response whatever the order of the columns: the
\* tags of its messages, the set of column names of the 'T' message, and for
\* every 'D' message the set of its values (length and bytes).
ResponseSummary(r) ==
    [ tags |-> [i \in DOMAIN r |-> r[i][1]],
      names |-> Range(ParseRowDescription(r[2])),
      rows |-> [i \in 1..(Len(r) - 3) |-> Range(ParseDataRow(r[2 + i]))] ]

\* The summary of the response to the literal result set of Loop.
LoopSummary ==
    [ tags |-> <<TagZ, TagT, TagD, TagD, TagC>>,
      names |-> { <<97>>, <<98>>, <<99>> },
      rows |-> << { [len |-> 0, bytes |-> <<>>],
                    [len |-> 3, bytes |-> <<66, 49, 0>>],
                    [len |-> 3, bytes |-> <<67, 49, 0>>] },
                  { [len |-> 0, bytes |-> <<>>],
                    [len |-> 3, bytes |-> <<66, 50, 0>>],
                    [len |-> 3, bytes |-> <<67, 50, 0>>] } >> ]

\* C20: every complete response has the same tags in the same order, the same
\* number of data rows, the same set of column names and the same values in
\* every row, whatever the text of the query it answers, and its messages
\* encode the columns and rows of one and the same result set (each in some
\* order of the columns): two queries with different payloads get responses
\* that agree in all of these.
C20_ResponseIndependentOfQueryText ==
    (pc = "ReadyForQuery" /\ wire # <<>> /\ wire[Len(wire)] = TagC)
        => /\ Len(resp) >= 3
           /\ ResponseSummary(resp) = LoopSummary
           /\ \E o \in RangeOrders(LoopData[1]) :
                 resp[2] = RowDescription(LoopData, o)
           /\ \A i \in 1..Len(LoopData) :
                 \E o \in RangeOrders(LoopData[i]) :
                    resp[2 + i] = DataRow(LoopData[i], o)
           /\ resp[Len(resp)] = CommandComplete(LoopTag)

\* After the handshake the client sent the query "S" and then the empty
\* query; both have been answered in full.
C20_Witness ==
    /\ pc = "ReadyForQuery"
    /\ q = <<>>
    /\ qmsgs = { [from |-> 8, to |-> 14], [from |-> 14, to |-> 19] }
    /\ nread = 19
    /\ wire = <<TagR, TagZ, TagT, TagD, TagD, TagC, TagZ, TagT, TagD, TagD, TagC>>

====
